---- MODULE Spec2Model ----
(***************************************************************************)
(* Finance tracker: the Store (storage.js over localStorage), the          *)
(* field validators (validators.js) and the snapshot import/export.        *)
(*                                                                         *)
(* JavaScript values are modelled as follows.                              *)
(*   - a string is the sequence of its characters (one-character strings); *)
(*     the ids, setting values and messages, which the code only compares  *)
(*     or copies, are TLA+ strings;                                        *)
(*   - undefined and null are the one-element sequences Undefined and      *)
(*     Null, which are no string's character sequence; a number is         *)
(*     Num(text), its decimal text behind the mark "number";               *)
(*   - an object is a record (a function from its own keys), so that       *)
(*     `key in obj` is key \in DOMAIN obj and {...a, ...b} is b @@ a;      *)
(*   - an instant (Date.now(), new Date()) is a natural number of clock    *)
(*     ticks; toISOString() is order preserving, so a stamp is kept as     *)
(*     its tick.                                                           *)
(***************************************************************************)
EXTENDS Integers, Sequences, FiniteSets, TLC

(***************************************************************************)
(* Bounds of the model.                                                    *)
(***************************************************************************)
\* Instants run over 0..MaxTime.
MaxTime == 1
\* addTransaction is called only while fewer than MaxTxns records are stored.
MaxTxns == 2
\* The search controls receive at most MaxInputs input events.
MaxInputs == 3
\* At most MaxUploads files are chosen for import before the page reloads.
MaxUploads == 2

(***************************************************************************)
(* Characters and strings.                                                 *)
(***************************************************************************)
Undefined == <<"undefined">>
Null == <<"null">>

Digits == {"0", "1", "2", "3", "4", "5", "6", "7", "8", "9"}
LowerLetters ==
    {"a", "b", "c", "d", "e", "f", "g", "h", "i", "j", "k", "l", "m",
     "n", "o", "p", "q", "r", "s", "t", "u", "v", "w", "x", "y", "z"}
UpperLetters ==
    {"A", "B", "C", "D", "E", "F", "G", "H", "I", "J", "K", "L", "M",
     "N", "O", "P", "Q", "R", "S", "T", "U", "V", "W", "X", "Y", "Z"}
Letters == LowerLetters \cup UpperLetters
\* \s of the regular expressions and the characters trim() removes
\* (space, tab, line feed, carriage return of the model's alphabet).
WhiteSpace == {" ", "\t", "\n", "\r"}
\* \w of the regular expressions.
WordChars == Letters \cup Digits \cup {"_"}

\* The number whose decimal text (String(n)) is text.
Num(text) == <<"number">> \o text

\* typeof v === "string"
IsString(v) == v # Undefined /\ v # Null /\ (v = <<>> \/ v[1] # "number")

\* String(v) of a string or a number.
String(v) == IF v # <<>> /\ v[1] = "number" THEN Tail(v) ELSE v

\* The value of a digit character.
DigitVal(c) ==
    CASE c = "0" -> 0 [] c = "1" -> 1 [] c = "2" -> 2 [] c = "3" -> 3
      [] c = "4" -> 4 [] c = "5" -> 5 [] c = "6" -> 6 [] c = "7" -> 7
      [] c = "8" -> 8 [] c = "9" -> 9

\* Case folding of the /i flag.
ToLower(c) ==
    CASE c = "A" -> "a" [] c = "B" -> "b" [] c = "C" -> "c" [] c = "D" -> "d"
      [] c = "E" -> "e" [] c = "F" -> "f" [] c = "G" -> "g" [] c = "H" -> "h"
      [] c = "I" -> "i" [] c = "J" -> "j" [] c = "K" -> "k" [] c = "L" -> "l"
      [] c = "M" -> "m" [] c = "N" -> "n" [] c = "O" -> "o" [] c = "P" -> "p"
      [] c = "Q" -> "q" [] c = "R" -> "r" [] c = "S" -> "s" [] c = "T" -> "t"
      [] c = "U" -> "u" [] c = "V" -> "v" [] c = "W" -> "w" [] c = "X" -> "x"
      [] c = "Y" -> "y" [] c = "Z" -> "z" [] OTHER -> c

\* String.prototype.trim
RECURSIVE TrimLeft(_)
TrimLeft(s) ==
    IF s # <<>> /\ Head(s) \in WhiteSpace THEN TrimLeft(Tail(s)) ELSE s

RECURSIVE TrimRight(_)
TrimRight(s) ==
    IF s # <<>> /\ s[Len(s)] \in WhiteSpace
    THEN TrimRight(SubSeq(s, 1, Len(s) - 1))
    ELSE s

Trim(s) == TrimRight(TrimLeft(s))

\* The number a sequence of digits denotes.
RECURSIVE DigitsToNat(_)
DigitsToNat(s) ==
    IF s = <<>> THEN 0
    ELSE 10 * DigitsToNat(SubSeq(s, 1, Len(s) - 1)) + DigitVal(s[Len(s)])

(***************************************************************************)
(* validators.js: the regular expressions.                                 *)
(***************************************************************************)
\* /^\S+(?:\s\S+)*$/ : not empty, no white space at either end, no two
\* white-space characters in a row.
DESCRIPTION_REGEX(s) ==
    /\ s # <<>>
    /\ s[1] \notin WhiteSpace
    /\ s[Len(s)] \notin WhiteSpace
    /\ \A i \in 1..(Len(s) - 1) :
          ~(s[i] \in WhiteSpace /\ s[i + 1] \in WhiteSpace)

\* The position of the decimal point of s, or 0.
PointAt(s) ==
    IF \E i \in 1..Len(s) : s[i] = "."
    THEN CHOOSE i \in 1..Len(s) : s[i] = "." /\ \A j \in 1..(i - 1) : s[j] # "."
    ELSE 0

IntPart(s) == IF PointAt(s) = 0 THEN s ELSE SubSeq(s, 1, PointAt(s) - 1)
FracPart(s) == IF PointAt(s) = 0 THEN <<>> ELSE SubSeq(s, PointAt(s) + 1, Len(s))

\* The expression without the rule on leading zeros: /^\d+(\.\d{1,2})?$/
AMOUNT_REGEX_LeadingZeros(s) ==
    LET ip == IntPart(s)
        fp == FracPart(s)
    IN  /\ ip # <<>>
        /\ \A i \in 1..Len(ip) : ip[i] \in Digits
        /\ PointAt(s) # 0 => /\ Len(fp) \in {1, 2}
                             /\ \A i \in 1..Len(fp) : fp[i] \in Digits

\* /^(0|[1-9]\d*)(\.\d{1,2})?$/
AMOUNT_REGEX(s) ==
    LET ip == IntPart(s)
        fp == FracPart(s)
    IN  /\ ip # <<>>
        /\ \A i \in 1..Len(ip) : ip[i] \in Digits
        /\ (ip = <<"0">> \/ ip[1] # "0")
        /\ PointAt(s) # 0 => /\ Len(fp) \in {1, 2}
                             /\ \A i \in 1..Len(fp) : fp[i] \in Digits

\* /^\d{4}-(0[1-9]|1[0-2])-(0[1-9]|[12]\d|3[01])$/
DATE_REGEX(s) ==
    /\ Len(s) = 10
    /\ \A i \in {1, 2, 3, 4, 6, 7, 9, 10} : s[i] \in Digits
    /\ s[5] = "-" /\ s[8] = "-"
    /\ \/ s[6] = "0" /\ s[7] # "0"
       \/ s[6] = "1" /\ s[7] \in {"0", "1", "2"}
    /\ \/ s[9] = "0" /\ s[10] # "0"
       \/ s[9] \in {"1", "2"}
       \/ s[9] = "3" /\ s[10] \in {"0", "1"}

\* /^[A-Za-z]+(?:[ -][A-Za-z]+)*$/ : letters, with single spaces or hyphens
\* between runs of letters.
CATEGORY_REGEX(s) ==
    /\ s # <<>>
    /\ s[1] \in Letters
    /\ s[Len(s)] \in Letters
    /\ \A i \in 1..Len(s) : s[i] \in Letters \cup {" ", "-"}
    /\ \A i \in 1..(Len(s) - 1) : s[i] \in Letters \/ s[i + 1] \in Letters

\* \b between positions i and i+1 of s (0 <= i <= Len(s)).
WordBoundary(s, i) ==
    LET before == i >= 1 /\ s[i] \in WordChars
        after == i < Len(s) /\ s[i + 1] \in WordChars
    IN  before # after

\* /\b(\w+)\s+\1\b/i : a run of word characters s[a..b] that starts at a
\* word boundary, then white space s[b+1..c-1], then the same run again
\* (case folded) ending at a word boundary.
DUPLICATE_WORD_REGEX(s) ==
    \E a \in 1..Len(s) : \E b \in a..Len(s) : \E c \in (b + 2)..Len(s) :
        LET n == b - a + 1
        IN  /\ WordBoundary(s, a - 1)
            /\ \A i \in a..b : s[i] \in WordChars
            /\ \A i \in (b + 1)..(c - 1) : s[i] \in WhiteSpace
            /\ c + n - 1 <= Len(s)
            /\ \A i \in 0..(n - 1) : ToLower(s[c + i]) = ToLower(s[a + i])
            /\ WordBoundary(s, c + n - 1)

(***************************************************************************)
(* validators.js: the field validators.  Each returns {valid, error}.      *)
(***************************************************************************)
Result(valid, error) == [valid |-> valid, error |-> error]

validateDescription(description) ==
    IF ~IsString(description) \/ description = <<>>
    THEN Result(FALSE, "Description is required")
    ELSE LET trimmed == Trim(description)
         IN  IF Len(trimmed) < 3
             THEN Result(FALSE, "Description must be at least 3 characters long")
             ELSE IF Len(trimmed) > 100
             THEN Result(FALSE, "Description must not exceed 100 characters")
             ELSE IF description # trimmed
             THEN Result(FALSE, "Description cannot have leading or trailing spaces")
             ELSE IF ~DESCRIPTION_REGEX(description)
             THEN Result(FALSE, "Description cannot contain consecutive spaces")
             ELSE IF DUPLICATE_WORD_REGEX(description)
             THEN Result(FALSE, "Description contains duplicate words")
             ELSE Result(TRUE, "")

\* parseFloat of a text that matches AMOUNT_REGEX, in hundredths.  Texts of
\* at most two decimals below 10^7 are distinct doubles in the same order, so
\* the comparisons of validateAmount are those of the hundredths.
AmountCents(s) ==
    LET fp == FracPart(s)
    IN  100 * DigitsToNat(IntPart(s))
          + (IF Len(fp) = 1 THEN 10 * DigitsToNat(fp) ELSE DigitsToNat(fp))

\* 9999999.99 in hundredths.
MaxAmountCents == 999999999

validateAmount(amount) ==
    IF amount = Null \/ amount = Undefined \/ amount = <<>>
    THEN Result(FALSE, "Amount is required")
    ELSE LET amountStr == Trim(String(amount))
         IN  IF ~AMOUNT_REGEX(amountStr)
             THEN Result(FALSE, "Amount must be a positive number with max 2 decimals (e.g., 12.50)")
             ELSE IF AmountCents(amountStr) <= 0
             THEN Result(FALSE, "Amount must be greater than 0")
             ELSE IF AmountCents(amountStr) > MaxAmountCents
             THEN Result(FALSE, "Amount is too large (max: 9,999,999.99)")
             ELSE Result(TRUE, "")

\* Calendar days are <<year, month, day>> with month in 1..12.
IsLeapYear(y) == (y % 4 = 0 /\ y % 100 # 0) \/ y % 400 = 0

DaysInMonth(y, m) ==
    IF m = 2 THEN (IF IsLeapYear(y) THEN 29 ELSE 28)
    ELSE IF m \in {4, 6, 9, 11} THEN 30 ELSE 31

\* Date normalisation for a day of 1..31: a day past the month's end rolls
\* over into the next month.
Normalize(y, m, d) ==
    IF d <= DaysInMonth(y, m) THEN <<y, m, d>>
    ELSE IF m = 12 THEN <<y + 1, 1, d - DaysInMonth(y, m)>>
    ELSE <<y, m + 1, d - DaysInMonth(y, m)>>

\* new Date(year, month - 1, day): years 0..99 denote 1900..1999.
NewDate(year, month, day) ==
    Normalize(IF year \in 0..99 THEN 1900 + year ELSE year, month, day)

\* d1 <= d2 in place of d1 < d2.
DayBefore_OrSame(d1, d2) ==
    \/ d1[1] < d2[1]
    \/ d1[1] = d2[1] /\ d1[2] < d2[2]
    \/ d1[1] = d2[1] /\ d1[2] = d2[2] /\ d1[3] <= d2[3]

\* d1 < d2 on calendar days (both at local midnight).
DayBefore(d1, d2) ==
    \/ d1[1] < d2[1]
    \/ d1[1] = d2[1] /\ d1[2] < d2[2]
    \/ d1[1] = d2[1] /\ d1[2] = d2[2] /\ d1[3] < d2[3]

\* today is the local calendar day of new Date().
validateDate(date, today) ==
    IF ~IsString(date) \/ date = <<>>
    THEN Result(FALSE, "Date is required")
    ELSE LET trimmed == Trim(date)
         IN  IF ~DATE_REGEX(trimmed)
             THEN Result(FALSE, "Date must be in YYYY-MM-DD format")
             ELSE LET year == DigitsToNat(SubSeq(trimmed, 1, 4))
                      month == DigitsToNat(SubSeq(trimmed, 6, 7))
                      day == DigitsToNat(SubSeq(trimmed, 9, 10))
                      dateObj == NewDate(year, month, day)
                      \* setFullYear keeps month and day and normalises
                      tenYearsAgo == Normalize(today[1] - 10, today[2], today[3])
                  IN  IF dateObj # <<year, month, day>>
                      THEN Result(FALSE, "Invalid date (e.g., Feb 30 does not exist)")
                      ELSE IF DayBefore(today, dateObj)
                      THEN Result(FALSE, "Date cannot be in the future")
                      ELSE IF DayBefore(dateObj, tenYearsAgo)
                      THEN Result(FALSE, "Date cannot be more than 10 years in the past")
                      ELSE Result(TRUE, "")

validateCategory(category) ==
    IF ~IsString(category) \/ category = <<>>
    THEN Result(FALSE, "Category is required")
    ELSE LET trimmed == Trim(category)
         IN  IF Len(trimmed) < 3
             THEN Result(FALSE, "Category must be at least 3 characters long")
             ELSE IF Len(trimmed) > 30
             THEN Result(FALSE, "Category must not exceed 30 characters")
             ELSE IF ~CATEGORY_REGEX(trimmed)
             THEN Result(FALSE, "Category can only contain letters, spaces, or hyphens")
             ELSE Result(TRUE, "")

\* null and undefined where an object is expected (a return value, an
\* array element, an argument).
JsNull == [jsnull |-> TRUE]
JsUndefined == [jsundefined |-> TRUE]

\* obj.key, undefined when the object has no such key.
Get(obj, key) == IF key \in DOMAIN obj THEN obj[key] ELSE Undefined

FieldError(field, result) ==
    IF result.valid THEN <<>> ELSE <<[field |-> field, message |-> result.error]>>

\* The TypeError of reading a property of null or undefined.
Raised == [raised |-> "TypeError"]

\* Returns {valid, errors}; today is the local calendar day of the call.
\* transaction.description of a null or undefined transaction throws, and
\* nothing catches it; a property of any other value that lacks it is
\* undefined.
validateTransaction(transaction, today) ==
    IF transaction \in {JsNull, JsUndefined} THEN Raised ELSE
    LET errors ==
            FieldError("description",
                       validateDescription(Get(transaction, "description")))
              \o FieldError("amount", validateAmount(Get(transaction, "amount")))
              \o FieldError("category",
                            validateCategory(Get(transaction, "category")))
              \o FieldError("date", validateDate(Get(transaction, "date"), today))
    IN  [valid |-> Len(errors) = 0, errors |-> errors]

(***************************************************************************)
(* storage.js: the localStorage substrate.                                 *)
(*                                                                         *)
(* localStorage is a record of the three items the Store uses.  An item    *)
(* that holds JSON text is kept as the value the text denotes, with a      *)
(* kind that says what JSON.parse does with it:                            *)
(*   transactions: "absent" (getItem returns null), "corrupt" (text that   *)
(*     JSON.parse rejects), "nonarray" (JSON that is no array, such as an  *)
(*     export document; items: the records it holds), "array" (items: its  *)
(*     elements);                                                          *)
(*   settings: "absent", "corrupt", "nonobject" (null, a number, ...:      *)
(*     spreading it adds nothing), "object" and "array" (fields: its own   *)
(*     enumerable keys);                                                   *)
(*   version: the text itself, NoItem when absent.                         *)
(***************************************************************************)
CURRENT_VERSION == "1.0.0"
NoItem == "<no item>"

\* The object with no keys.
NoFields == [k \in {} |-> ""]
IsObject(v) == "jsnull" \notin DOMAIN v

TxnText(kind, items) == [kind |-> kind, items |-> items]
SettingsText(kind, fields) == [kind |-> kind, fields |-> fields]

\* What the host does to this call's accesses: with unavailable every
\* getItem, setItem and removeItem throws (storage disabled); setItem on a
\* key in quota throws QuotaExceededError when it would store a new value.
NoFault == [unavailable |-> FALSE, quota |-> {}]
Faults ==
    {NoFault,
     [unavailable |-> TRUE, quota |-> {}],
     [unavailable |-> FALSE, quota |-> {"transactions"}],
     [unavailable |-> FALSE, quota |-> {"version"}],
     [unavailable |-> FALSE, quota |-> {"settings"}]}

getItemThrows(fault) == fault.unavailable

setItemThrows(ls, key, text, fault) ==
    fault.unavailable \/ (key \in fault.quota /\ ls[key] # text)

\* The members of a transaction that hold texts; id is a TLA+ string and the
\* stamps are instants, none of them ever undefined.
TextKeys == {"description", "amount", "category", "date", "paymentMethod"}

\* JSON.stringify of an object: keys whose value is undefined are left out.
StringifyObject(obj) ==
    IF IsObject(obj)
    THEN [k \in {j \in DOMAIN obj : ~(j \in TextKeys /\ obj[j] = Undefined)} |->
            obj[k]]
    ELSE JsNull

\* JSON.stringify of a value of the model: array, "cyclic" (an array that
\* refers to itself: stringify throws) or "other" (not an array).
JSONstringifyThrows(value) == value.kind = "cyclic"

JSONstringify(value) ==
    TxnText(IF value.kind = "array" THEN "array" ELSE "nonarray",
            [i \in DOMAIN value.items |-> StringifyObject(value.items[i])])

Arr(items) == [kind |-> "array", items |-> items]
NotAnArray == [kind |-> "other", items |-> <<>>]
CyclicArray == [kind |-> "cyclic", items |-> <<>>]
IsArray(value) == value.kind \in {"array", "cyclic"}

(***************************************************************************)
(* storage.js: transactions.  Each operator is the function of the same    *)
(* name on the localStorage ls; those that write return [ls, ret].         *)
(***************************************************************************)
\* loadTransactions without its Array.isArray check.
loadTransactions_NoArrayCheck(ls, fault) ==
    IF getItemThrows(fault) THEN <<>>
    ELSE CASE ls.transactions.kind = "absent" -> <<>>
           [] ls.transactions.kind = "corrupt" -> <<>>
           [] ls.transactions.kind \in {"nonarray", "array"} ->
                ls.transactions.items

loadTransactions(ls, fault) ==
    IF getItemThrows(fault) THEN <<>>
    ELSE CASE ls.transactions.kind = "absent" -> <<>>
           [] ls.transactions.kind = "corrupt" -> <<>>
           [] ls.transactions.kind = "nonarray" -> <<>>
           [] ls.transactions.kind = "array" -> ls.transactions.items

saveTransactions(ls, transactions, fault) ==
    IF ~IsArray(transactions) \/ JSONstringifyThrows(transactions)
    THEN [ls |-> ls, ret |-> FALSE]
    ELSE LET data == JSONstringify(transactions)
             ls1 == [ls EXCEPT !.transactions = data]
         IN  IF setItemThrows(ls, "transactions", data, fault)
             THEN [ls |-> ls, ret |-> FALSE]
             ELSE IF setItemThrows(ls1, "version", CURRENT_VERSION, fault)
             THEN [ls |-> ls1, ret |-> FALSE]
             ELSE [ls |-> [ls1 EXCEPT !.version = CURRENT_VERSION], ret |-> TRUE]

generateId(prefix, timestamp, random) ==
    prefix \o "_" \o ToString(timestamp) \o "_" \o ToString(random)

\* addTransaction that puts the new record first (unshift for push).
addTransaction_Prepends(ls, transactionData, timestamp, random, createdAt, updatedAt, fault) ==
    LET transactions == loadTransactions(ls, fault)
        id == generateId("txn", timestamp, random)
        transaction ==
            [createdAt |-> createdAt, updatedAt |-> updatedAt]
              @@ transactionData @@ [id |-> id]
        saved == saveTransactions(ls, Arr(<<transaction>> \o transactions), fault)
    IN  [ls |-> saved.ls, ret |-> IF saved.ret THEN transaction ELSE JsNull]

\* timestamp, createdAt and updatedAt are the three readings of the clock;
\* random is Math.floor(Math.random() * 10000).
addTransaction(ls, transactionData, timestamp, random, createdAt, updatedAt, fault) ==
    LET transactions == loadTransactions(ls, fault)
        id == generateId("txn", timestamp, random)
        transaction ==
            [createdAt |-> createdAt, updatedAt |-> updatedAt]
              @@ transactionData @@ [id |-> id]
        saved == saveTransactions(ls, Arr(Append(transactions, transaction)), fault)
    IN  [ls |-> saved.ls, ret |-> IF saved.ret THEN transaction ELSE JsNull]

\* The stored arrays hold objects only (StoredItemsAreObjects), so t.id
\* never throws.
IdIs(t, id) == "id" \in DOMAIN t /\ t.id = id

\* transactions.findIndex((t) => t.id === id), 0 for -1.
findIndex(transactions, id) ==
    IF \E i \in DOMAIN transactions : IdIs(transactions[i], id)
    THEN CHOOSE i \in DOMAIN transactions :
            /\ IdIs(transactions[i], id)
            /\ \A j \in 1..(i - 1) : ~IdIs(transactions[j], id)
    ELSE 0

\* updateTransaction with the two spreads in the other order.
updateTransaction_OldOverUpdates(ls, id, updates, updatedAt, fault) ==
    LET transactions == loadTransactions(ls, fault)
        index == findIndex(transactions, id)
    IN  IF index = 0
        THEN [ls |-> ls, ret |-> JsNull]
        ELSE LET updated ==
                     [updatedAt |-> updatedAt] @@ transactions[index] @@ updates
                 saved == saveTransactions(
                              ls, Arr([transactions EXCEPT ![index] = updated]), fault)
             IN  [ls |-> saved.ls, ret |-> IF saved.ret THEN updated ELSE JsNull]

updateTransaction(ls, id, updates, updatedAt, fault) ==
    LET transactions == loadTransactions(ls, fault)
        index == findIndex(transactions, id)
    IN  IF index = 0
        THEN [ls |-> ls, ret |-> JsNull]
        ELSE LET updated ==
                     [updatedAt |-> updatedAt] @@ updates @@ transactions[index]
                 saved == saveTransactions(
                              ls, Arr([transactions EXCEPT ![index] = updated]), fault)
             IN  [ls |-> saved.ls, ret |-> IF saved.ret THEN updated ELSE JsNull]

\* transactions.filter((t) => t.id !== id)
RECURSIVE filterOut(_, _)
filterOut(transactions, id) ==
    IF transactions = <<>> THEN <<>>
    ELSE IF ~IdIs(Head(transactions), id)
         THEN <<Head(transactions)>> \o filterOut(Tail(transactions), id)
         ELSE filterOut(Tail(transactions), id)

\* deleteTransaction whose filter keeps the records it should drop.
deleteTransaction_Inverted(ls, id, fault) ==
    LET transactions == loadTransactions(ls, fault)
        filteredTransactions ==
            [i \in 1..(Len(transactions) - Len(filterOut(transactions, id))) |->
                transactions[findIndex(transactions, id)]]
    IN  IF Len(filteredTransactions) = Len(transactions)
        THEN [ls |-> ls, ret |-> FALSE]
        ELSE saveTransactions(ls, Arr(filteredTransactions), fault)

deleteTransaction(ls, id, fault) ==
    LET transactions == loadTransactions(ls, fault)
        filteredTransactions == filterOut(transactions, id)
    IN  IF Len(filteredTransactions) = Len(transactions)
        THEN [ls |-> ls, ret |-> FALSE]
        ELSE saveTransactions(ls, Arr(filteredTransactions), fault)

getTransaction(ls, id, fault) ==
    LET transactions == loadTransactions(ls, fault)
        index == findIndex(transactions, id)
    IN  IF index = 0 THEN JsNull ELSE transactions[index]

\* clearTransactions that empties the whole localStorage (clear for
\* removeItem).
clearTransactions_Everything(ls, fault) ==
    IF fault.unavailable
    THEN [ls |-> ls, ret |-> FALSE]
    ELSE [ls |-> [transactions |-> TxnText("absent", <<>>),
                  settings |-> SettingsText("absent", NoFields),
                  version |-> NoItem],
          ret |-> TRUE]

clearTransactions(ls, fault) ==
    IF fault.unavailable
    THEN [ls |-> ls, ret |-> FALSE]
    ELSE [ls |-> [ls EXCEPT !.transactions = TxnText("absent", <<>>)], ret |-> TRUE]

(***************************************************************************)
(* storage.js: settings.  Setting values are kept as their JSON texts      *)
(* ("1200", "null"); "NaN" and "undefined" are the two values that         *)
(* JSON.stringify does not keep.                                           *)
(***************************************************************************)
defaults ==
    [baseCurrency |-> "RWF", usdRate |-> "1200", eurRate |-> "1300",
     monthlyBudget |-> "100000", theme |-> "light"]

\* loadSettings that returns what it parsed, without the defaults under it.
loadSettings_NoDefaults(ls, fault) ==
    IF getItemThrows(fault) THEN defaults
    ELSE CASE ls.settings.kind = "absent" -> defaults
           [] ls.settings.kind = "corrupt" -> defaults
           [] ls.settings.kind = "nonobject" -> defaults
           [] ls.settings.kind \in {"object", "array"} -> ls.settings.fields

loadSettings(ls, fault) ==
    IF getItemThrows(fault) THEN defaults
    ELSE CASE ls.settings.kind = "absent" -> defaults
           [] ls.settings.kind = "corrupt" -> defaults
           [] ls.settings.kind = "nonobject" -> defaults
           [] ls.settings.kind \in {"object", "array"} ->
                ls.settings.fields @@ defaults

\* JSON.stringify of a settings value: undefined members are left out, NaN
\* becomes null.
StringifySettings(settings) ==
    SettingsText(
        IF settings.kind \in {"object", "array"} THEN settings.kind ELSE "nonobject",
        [k \in {j \in DOMAIN settings.fields : settings.fields[j] # "undefined"} |->
            IF settings.fields[k] = "NaN" THEN "null" ELSE settings.fields[k]])

saveSettings(ls, settings, fault) ==
    LET data == StringifySettings(settings)
    IN  IF setItemThrows(ls, "settings", data, fault)
        THEN [ls |-> ls, ret |-> FALSE]
        ELSE [ls |-> [ls EXCEPT !.settings = data], ret |-> TRUE]

Obj(fields) == [kind |-> "object", fields |-> fields]

updateSetting(ls, key, value, fault) ==
    LET settings == loadSettings(ls, fault)
    IN  saveSettings(ls, Obj((key :> value) @@ settings), fault)

(***************************************************************************)
(* storage.js: export and import.  A document is [kind, fields]: kind is   *)
(* "null", "primitive" or "object"; fields.transactions is a value as      *)
(* saveTransactions takes it and fields.settings one as saveSettings       *)
(* takes it (kind "object", "array", "null" or "primitive").               *)
(***************************************************************************)
\* exportData that leaves the ids out of the records it writes.
exportData_WithoutIds(ls, exportDate, fault) ==
    LET transactions == loadTransactions(ls, fault)
    IN  Obj([version |-> CURRENT_VERSION,
             exportDate |-> exportDate,
             transactions |->
                 Arr([i \in DOMAIN transactions |->
                         [k \in DOMAIN transactions[i] \ {"id"} |->
                             transactions[i][k]]]),
             settings |-> Obj(loadSettings(ls, fault))])

exportData(ls, exportDate, fault) ==
    Obj([version |-> CURRENT_VERSION,
         exportDate |-> exportDate,
         transactions |-> Arr(loadTransactions(ls, fault)),
         settings |-> Obj(loadSettings(ls, fault))])

\* requiredFields in another order.
requiredFields_Reordered == <<"id", "amount", "description", "category", "date">>

requiredFields == <<"id", "description", "amount", "category", "date">>

ImportResult(success, message) == [success |-> success, message |-> message]

\* `field in transaction` throws a TypeError when transaction is no object.
InThrows(transaction) == ~IsObject(transaction)

\* The element and the field at which the checking loops stop: the first
\* element that is no object or lacks a required field.
Complete(transaction) ==
    IsObject(transaction)
      /\ \A f \in 1..Len(requiredFields) : requiredFields[f] \in DOMAIN transaction

FirstIncomplete(items) ==
    IF \A i \in DOMAIN items : Complete(items[i]) THEN 0
    ELSE CHOOSE i \in DOMAIN items :
            ~Complete(items[i]) /\ \A j \in 1..(i - 1) : Complete(items[j])

FirstMissingField(transaction) ==
    requiredFields[
        CHOOSE f \in 1..Len(requiredFields) :
            /\ requiredFields[f] \notin DOMAIN transaction
            /\ \A g \in 1..(f - 1) : requiredFields[g] \in DOMAIN transaction]

TypeErrorMessage == "Cannot use 'in' operator to search for 'id' in null"

\* The imported array appended to the stored one.
ImportedTransactions_Merged(ls, data) ==
    Arr(loadTransactions(ls, NoFault) \o data.fields.transactions.items)

\* What importData passes to saveTransactions.
ImportedTransactions(ls, data) == data.fields.transactions

importData(ls, data, fault) ==
    IF data.kind # "object"
    THEN [ls |-> ls, ret |-> ImportResult(FALSE, "Invalid data format")]
    ELSE IF "transactions" \notin DOMAIN data.fields
              \/ ~IsArray(data.fields.transactions)
    THEN [ls |-> ls,
          ret |-> ImportResult(FALSE, "Missing or invalid transactions array")]
    ELSE LET items == data.fields.transactions.items
             bad == FirstIncomplete(items)
         IN  IF bad # 0
             THEN [ls |-> ls,
                   ret |-> IF InThrows(items[bad])
                           THEN ImportResult(FALSE, TypeErrorMessage)
                           ELSE ImportResult(FALSE,
                                    "Transaction missing required field: "
                                        \o FirstMissingField(items[bad]))]
             ELSE LET saved ==
                          saveTransactions(ls, ImportedTransactions(ls, data), fault)
                  IN  IF ~saved.ret
                      THEN [ls |-> saved.ls,
                            ret |-> ImportResult(FALSE, "Failed to save transactions")]
                      ELSE [ls |-> IF "settings" \in DOMAIN data.fields
                                       /\ data.fields.settings.kind \in {"object", "array"}
                                   THEN saveSettings(saved.ls, data.fields.settings, fault).ls
                                   ELSE saved.ls,
                            ret |-> ImportResult(TRUE,
                                        "Successfully imported "
                                            \o ToString(Len(items)) \o " transactions")]

(***************************************************************************)
(* storage.js: the queries.  A calendar day is <<year, month, day>>.  The  *)
(* clock of a query is [today, utcShift, utcMidnight]: the local calendar  *)
(* day of new Date(), the number of days (-1, 0 or 1) by which the UTC     *)
(* calendar day of that instant is ahead of the local one, and whether     *)
(* the instant is 00:00:00.000 UTC.  The days of one call have the same    *)
(* offset to UTC (no change of daylight saving time among them).  Amounts  *)
(* are summed in hundredths.                                               *)
(***************************************************************************)
\* date.setDate(day) on a date of the month of d: a day before the first or
\* past the last of the month rolls into the months before or after.
RECURSIVE setDate(_, _)
setDate(d, day) ==
    IF day < 1
    THEN LET py == IF d[2] = 1 THEN d[1] - 1 ELSE d[1]
             pm == IF d[2] = 1 THEN 12 ELSE d[2] - 1
         IN  setDate(<<py, pm, 1>>, day + DaysInMonth(py, pm))
    ELSE IF day > DaysInMonth(d[1], d[2])
    THEN setDate(IF d[2] = 12 THEN <<d[1] + 1, 1, 1>> ELSE <<d[1], d[2] + 1, 1>>,
                 day - DaysInMonth(d[1], d[2]))
    ELSE <<d[1], d[2], day>>

DigitChars == <<"0", "1", "2", "3", "4", "5", "6", "7", "8", "9">>

RECURSIVE PadStart(_, _)
PadStart(n, width) ==
    IF width = 0 THEN <<>>
    ELSE Append(PadStart(n \div 10, width - 1), DigitChars[(n % 10) + 1])

\* date.toISOString().split("T")[0] of an instant of the local day d: the
\* UTC calendar day, as YYYY-MM-DD.
toISODate(d, clock) ==
    LET utc == setDate(d, d[3] + clock.utcShift)
    IN  PadStart(utc[1], 4) \o <<"-">> \o PadStart(utc[2], 2) \o <<"-">>
          \o PadStart(utc[3], 2)

InvalidDate == <<>>

\* new Date(text) of a date-only text: midnight UTC of that day; Invalid
\* Date for what is not the YYYY-MM-DD of a day of the calendar.
ParseDate(text) ==
    IF IsString(text) /\ DATE_REGEX(text)
    THEN LET d == <<DigitsToNat(SubSeq(text, 1, 4)), DigitsToNat(SubSeq(text, 6, 7)),
                    DigitsToNat(SubSeq(text, 9, 10))>>
         IN  IF d[3] <= DaysInMonth(d[1], d[2]) THEN d ELSE InvalidDate
    ELSE InvalidDate

\* transactions.reduce((sum, t) => sum + parseFloat(t.amount), 0)
RECURSIVE calculateTotal(_)
calculateTotal(transactions) ==
    IF transactions = <<>> THEN 0
    ELSE calculateTotal(SubSeq(transactions, 1, Len(transactions) - 1))
           + AmountCents(transactions[Len(transactions)].amount)

getSpendingForLastDays(ls, days, clock, fault) ==
    LET transactions == loadTransactions(ls, fault)
        endDate == clock.today
        startDate == setDate(clock.today, clock.today[3] - days)
        \* the UTC calendar days of the instants startDate and endDate
        startDay == setDate(startDate, startDate[3] + clock.utcShift)
        endDay == setDate(endDate, endDate[3] + clock.utcShift)
        keys == {toISODate(setDate(startDate, startDate[3] + i), clock) :
                    i \in 0..(days - 1)}
        \* transDate >= startDate && transDate <= endDate
        InRange(t) ==
            LET transDate == ParseDate(Get(t, "date"))
            IN  /\ transDate # InvalidDate
                /\ \/ DayBefore(startDay, transDate)
                   \/ transDate = startDay /\ clock.utcMidnight
                /\ ~DayBefore(endDay, transDate)
        Counted(k) ==
            SelectSeq(transactions, LAMBDA t : InRange(t) /\ Get(t, "date") = k)
    IN  [k \in keys |-> calculateTotal(Counted(k))]

(***************************************************************************)
(* ui.js: what the transactions page shows.  The functions return nothing; *)
(* ret is the sequence of records they render, and ls the localStorage     *)
(* they leave.  The records are ones whose date is a real day.             *)
(***************************************************************************)
\* new Date(t.date), as a number that grows with the instant.
DateKey(t) ==
    LET d == ParseDate(t.date) IN 10000 * d[1] + 100 * d[2] + d[3]

\* The orders of the elements 1..n that a sort by a relation before (the
\* set of the pairs <<i, j>> with i before j) can leave: no element stands
\* behind one that it is strictly before.
SortOrders(n, before) ==
    {p \in [1..n -> 1..n] :
        /\ \A i, j \in 1..n : i # j => p[i] # p[j]
        /\ \A i, j \in 1..n : i < j => <<p[j], p[i]>> \notin before}

\* renderTransactions(data) for an array: [...data].sort by date, newest
\* first.  The sort is stable: records of one day keep their order.
renderTransactions(data) ==
    LET n == Len(data)
        before == {<<i, j>> \in (1..n) \X (1..n) :
                      \/ DateKey(data[i]) > DateKey(data[j])
                      \/ DateKey(data[i]) = DateKey(data[j]) /\ i < j}
        p == CHOOSE q \in SortOrders(n, before) : TRUE
    IN  [i \in 1..n |-> data[p[i]]]

\* A regular expression is [pattern, flags] with a pattern of literal
\* characters: regex.test(text) finds the pattern in the text, under the
\* flag "i" without regard to case.  JsNull is no expression.
filterTransactionsByRegex(ls, regex, fault) ==
    LET transactions == loadTransactions(ls, fault)
        fold(c) == IF regex.flags = "i" THEN ToLower(c) ELSE c
        test(text) ==
            /\ IsString(String(text))
            /\ \E k \in 0..(Len(String(text)) - Len(regex.pattern)) :
                  \A i \in 1..Len(regex.pattern) :
                      fold(String(text)[k + i]) = fold(regex.pattern[i])
        matches(t) == \/ test(Get(t, "description"))
                      \/ test(Get(t, "amount"))
                      \/ test(Get(t, "category"))
                      \/ test(Get(t, "date"))
    IN  [ls |-> ls,
         ret |-> IF regex = JsNull THEN renderTransactions(transactions)
                 ELSE renderTransactions(SelectSeq(transactions, matches))]

\* The sorted array written back to the Store.
sortTransactions_Saving(ls, field, order, fault) ==
    LET transactions == loadTransactions(ls, fault)
    IN  {saveTransactions(ls, Arr([i \in 1..Len(transactions) |->
                                    transactions[Len(transactions) + 1 - i]]),
                          fault)}

\* The results sortTransactions(field, order) can have.  Its comparator
\* never answers 0 for date, description and amount: of two records with
\* the same key it puts the first argument first, whichever the sort
\* passes first, so that the order of such records is the
\* implementation's.  For any other field it answers 0 and the (stable)
\* sort changes nothing.  Strings compare by their code units.
sortTransactions(ls, field, order, fault) ==
    LET transactions == loadTransactions(ls, fault)
        units == <<" ", "-", "0", "1", "2", "3", "4", "5", "6", "7", "8", "9",
                   "_", "a", "b", "c", "d", "e", "f", "g", "h", "i", "j", "k",
                   "l", "m", "n", "o", "p", "q", "r", "s", "t", "u", "v", "w",
                   "x", "y", "z">>
        unit(c) == CHOOSE k \in 1..Len(units) : units[k] = ToLower(c)
        textLess(a, b) ==
            \E k \in 1..(Len(a) + 1) :
                /\ \A i \in 1..(k - 1) : i <= Len(b) /\ unit(a[i]) = unit(b[i])
                /\ k <= Len(b)
                /\ k <= Len(a) => unit(a[k]) < unit(b[k])
        less(a, b) ==
            CASE field = "date" -> DateKey(a) < DateKey(b)
              [] field = "description" -> textLess(a.description, b.description)
              [] field = "amount" -> AmountCents(a.amount) < AmountCents(b.amount)
              [] OTHER -> FALSE
        before ==
            {<<i, j>> \in (1..Len(transactions)) \X (1..Len(transactions)) :
                IF field \notin {"date", "description", "amount"} THEN i < j
                ELSE IF order = "asc"
                     THEN less(transactions[i], transactions[j])
                     ELSE less(transactions[j], transactions[i])}
    IN  {[ls |-> ls,
          ret |-> renderTransactions([i \in 1..Len(transactions) |->
                                        transactions[p[i]]])] :
            p \in SortOrders(Len(transactions), before)}

(***************************************************************************)
(* The inputs of the calls.                                                *)
(***************************************************************************)
\* The local calendar day of the model's instants, which are all within
\* one day.
Today == <<2024, 3, 15>>

DescTea == <<"t", "e", "a">>
AmountFive == <<"5">>
AmountSeven == <<"7", ".", "5">>
AmountNegative == <<"-", "5">>
CategoryFood == <<"F", "o", "o", "d">>
DateToday == <<"2", "0", "2", "4", "-", "0", "3", "-", "1", "5">>
DateEarlier == <<"2", "0", "2", "4", "-", "0", "3", "-", "1", "4">>

\* What TransactionFormPage.handleSubmit passes: the five form values, which
\* the validators have accepted.
FormGood ==
    [description |-> DescTea, amount |-> AmountFive, category |-> CategoryFood,
     date |-> DateToday, paymentMethod |-> <<"c", "a", "s", "h">>]
\* Accepted values together with an id and stamps of the caller's.
FormWithId ==
    [id |-> "x", createdAt |-> 7, updatedAt |-> 7, description |-> DescTea,
     amount |-> AmountSeven, category |-> CategoryFood, date |-> DateEarlier]

AddInputs == {FormGood, FormWithId}

UpdateInputs ==
    {[amount |-> AmountSeven], [id |-> "y", createdAt |-> 7, updatedAt |-> 7]}

\* Math.floor(Math.random() * 10000): two of its values.
RandomValues == {0, 1}

TxnX ==
    [id |-> "x", description |-> DescTea, amount |-> AmountFive,
     category |-> CategoryFood, date |-> DateToday]
\* A record as exportData writes it, with its stamps.
TxnY ==
    [id |-> "y", description |-> DescTea, amount |-> AmountSeven,
     category |-> CategoryFood, date |-> DateEarlier, createdAt |-> 0,
     updatedAt |-> 1]
TxnBad == [TxnY EXCEPT !.amount = AmountNegative]
\* A record of a document whose updatedAt is before its createdAt.
TxnStale ==
    [id |-> "s", description |-> DescTea, amount |-> AmountFive,
     category |-> CategoryFood, date |-> DateToday, createdAt |-> 1,
     updatedAt |-> 0]
TxnNoCategory ==
    [id |-> "z", description |-> DescTea, amount |-> AmountFive, date |-> DateToday]
TxnIdOnly == [id |-> "x"]

ImportSettings == [theme |-> "dark", usdRate |-> "1000"]

\* What the settings form passes (App.saveSettings): parseFloat of an empty
\* input is NaN.
FormSettings ==
    [baseCurrency |-> "USD", usdRate |-> "NaN", eurRate |-> "1300",
     monthlyBudget |-> "500"]

NullDoc == [kind |-> "null", fields |-> NoFields]
PrimitiveDoc == [kind |-> "primitive", fields |-> NoFields]
Doc(items) == Obj([transactions |-> Arr(items)])
DocWithSettings(items, settings) ==
    Obj([transactions |-> Arr(items), settings |-> settings])

\* The documents of the Store's day-to-day use.
PlainDocs ==
    {Doc(<<TxnX>>), Doc(<<TxnY, TxnX>>), Doc(<<TxnX, TxnX>>), Doc(<<TxnBad>>),
     Doc(<<TxnIdOnly>>), Doc(<<TxnStale>>)}

\* The documents that exercise every branch of importData.
ImportDocs ==
    {NullDoc, PrimitiveDoc, Obj(NoFields), Obj([transactions |-> NotAnArray]),
     Obj([settings |-> Obj(ImportSettings)])}
      \cup {Doc(l) : l \in
              {<<>>, <<TxnX>>, <<TxnX, TxnY>>, <<TxnY, TxnX>>, <<TxnX, TxnX>>,
               <<TxnBad>>, <<TxnIdOnly>>, <<TxnX, TxnNoCategory>>,
               <<TxnNoCategory, TxnIdOnly>>, <<JsNull>>, <<JsNull, TxnIdOnly>>,
               <<TxnIdOnly, JsNull>>}}
      \cup {DocWithSettings(l, Obj(ImportSettings)) :
              l \in {<<>>, <<TxnX>>, <<TxnIdOnly>>}}
      \cup {DocWithSettings(<<TxnY>>, v) :
              v \in {[kind |-> "null", fields |-> NoFields],
                     [kind |-> "primitive", fields |-> NoFields],
                     [kind |-> "array", fields |-> [theme |-> "dark"]]}}

Reliable == {NoFault}

\* The clocks of the queries: the middle of a month and its beginning, at
\* instants whose UTC day is the local day, the day before or the day
\* after.  An instant at midnight UTC is not behind the local day.
Clocks ==
    {c \in [today : {Today, <<2024, 3, 3>>}, utcShift : {-1, 0, 1},
            utcMidnight : BOOLEAN] :
        c.utcMidnight => c.utcShift # -1}

QueryDays == {1, 2, 7}

Spent(id, date, amount) ==
    [id |-> id, description |-> DescTea, amount |-> amount,
     category |-> CategoryFood, date |-> date]

\* Records of today, of the day before, of a week before and (a bus
\* fare) of a week before the third of March.
QueryRecords ==
    {Spent("a", DateToday, AmountFive), Spent("b", DateEarlier, AmountSeven),
     Spent("c", <<"2", "0", "2", "4", "-", "0", "3", "-", "0", "8">>, AmountFive),
     [Spent("d", <<"2", "0", "2", "4", "-", "0", "2", "-", "2", "5">>, AmountSeven)
        EXCEPT !.description = <<"B", "u", "s">>,
               !.category = <<"T", "r", "a", "v", "e", "l">>]}

Items(ls) == loadTransactions(ls, NoFault)

StoredIds(ls) ==
    {Items(ls)[i].id : i \in {j \in DOMAIN Items(ls) : "id" \in DOMAIN Items(ls)[j]}}

(***************************************************************************)
(* The state: the substrate, the clock (its last reading), and the call    *)
(* of the Store's interface that has just returned, with the localStorage  *)
(* it found (pre) and what it returned (ret).  The calls are synchronous:  *)
(* one is made only after the caller has taken the previous one's result   *)
(* (Return).                                                               *)
(***************************************************************************)
VARIABLES localStorage, now, pre, call, ret, page

vars == <<localStorage, now, pre, call, ret, page>>

NoCall == [op |-> "none"]

\* The pages of the application as they are when loaded.  Of the
\* transactions page: the text of the search box (value), the case-sensitive
\* box (checked), the timers that wait (each [id, due]), the timer id the
\* search box keeps (searchTimeout), the time in ms (clock), the time of
\* each input event so far (inputAt) and the evaluations made (evaluated).
\* Of the settings page: the file reads that go on (reads), what the Store
\* held when the first began (base), the files whose read has ended, in
\* that order (done), and whether location.reload() has been called.
NoPage ==
    [value |-> <<>>, checked |-> FALSE, timers |-> {}, searchTimeout |-> 0,
     clock |-> 0, inputAt |-> <<>>, evaluated |-> <<>>,
     reads |-> {}, base |-> FALSE, done |-> <<>>, reloading |-> FALSE]
Idle == call = NoCall

EmptyStorage ==
    [transactions |-> TxnText("absent", <<>>),
     settings |-> SettingsText("absent", NoFields),
     version |-> NoItem]

\* A call that only reads.
Reads(c, r) ==
    /\ Idle
    /\ pre' = localStorage
    /\ call' = c
    /\ ret' = r
    /\ UNCHANGED <<localStorage, now, page>>

\* A call that returns [ls, ret].
Writes(c, result) ==
    /\ Idle
    /\ pre' = localStorage
    /\ call' = c
    /\ ret' = result.ret
    /\ localStorage' = result.ls
    /\ UNCHANGED <<now, page>>

Return ==
    /\ ~Idle
    /\ call' = NoCall
    /\ ret' = FALSE
    /\ pre' = localStorage
    /\ UNCHANGED <<localStorage, now, page>>

LoadTransactions(faults) ==
    \E fault \in faults :
        Reads([op |-> "loadTransactions", fault |-> fault],
              loadTransactions(localStorage, fault))

SaveTransactions(faults) ==
    \E fault \in faults :
    \E transactions \in {NotAnArray, CyclicArray, Arr(<<>>), Arr(Items(localStorage))} :
        Writes([op |-> "saveTransactions", transactions |-> transactions,
                fault |-> fault],
               saveTransactions(localStorage, transactions, fault))

\* The clock is read three times; it never runs backwards.
AddTransaction(inputs, faults) ==
    \E fault \in faults, transactionData \in inputs, random \in RandomValues :
    \E timestamp \in now..MaxTime :
    \E createdAt \in timestamp..MaxTime :
    \E updatedAt \in createdAt..MaxTime :
        LET result == addTransaction(localStorage, transactionData, timestamp,
                                     random, createdAt, updatedAt, fault)
        IN  /\ Idle
            /\ Len(Items(localStorage)) < MaxTxns
            /\ pre' = localStorage
            /\ call' = [op |-> "addTransaction", transactionData |-> transactionData,
                        id |-> generateId("txn", timestamp, random),
                        createdAt |-> createdAt, updatedAt |-> updatedAt,
                        fault |-> fault]
            /\ ret' = result.ret
            /\ localStorage' = result.ls
            /\ now' = updatedAt
            /\ UNCHANGED page

UpdateTransaction(inputs, faults) ==
    \E fault \in faults, updates \in inputs,
       id \in StoredIds(localStorage) \cup {"none"} :
    \E updatedAt \in now..MaxTime :
        LET result == updateTransaction(localStorage, id, updates, updatedAt, fault)
        IN  /\ Idle
            /\ pre' = localStorage
            /\ call' = [op |-> "updateTransaction", id |-> id, updates |-> updates,
                        updatedAt |-> updatedAt, fault |-> fault]
            /\ ret' = result.ret
            /\ localStorage' = result.ls
            /\ now' = updatedAt
            /\ UNCHANGED page

DeleteTransaction(faults) ==
    \E fault \in faults, id \in StoredIds(localStorage) \cup {"none"} :
        Writes([op |-> "deleteTransaction", id |-> id, fault |-> fault],
               deleteTransaction(localStorage, id, fault))

GetTransaction(faults) ==
    \E fault \in faults, id \in StoredIds(localStorage) \cup {"none"} :
        Reads([op |-> "getTransaction", id |-> id, fault |-> fault],
              getTransaction(localStorage, id, fault))

ClearTransactions(faults) ==
    \E fault \in faults :
        Writes([op |-> "clearTransactions", fault |-> fault],
               clearTransactions(localStorage, fault))

LoadSettings(faults) ==
    \E fault \in faults :
        Reads([op |-> "loadSettings", fault |-> fault],
              loadSettings(localStorage, fault))

SaveSettings(inputs, faults) ==
    \E fault \in faults, settings \in inputs :
        Writes([op |-> "saveSettings", settings |-> settings, fault |-> fault],
               saveSettings(localStorage, settings, fault))

UpdateSetting(inputs, faults) ==
    \E fault \in faults, kv \in inputs :
        Writes([op |-> "updateSetting", key |-> kv[1], value |-> kv[2],
                fault |-> fault],
               updateSetting(localStorage, kv[1], kv[2], fault))

ExportData(faults) ==
    \E fault \in faults :
        Reads([op |-> "exportData", fault |-> fault],
              exportData(localStorage, now, fault))

\* importData of a document of docs, or of what exportData has just returned.
ImportData(docs, faults) ==
    \E fault \in faults :
    \E data \in docs \cup {exportData(localStorage, now, NoFault)} :
        Writes([op |-> "importData", data |-> data, fault |-> fault],
               importData(localStorage, data, fault))

(***************************************************************************)
(* Spec: the Store in day-to-day use on a substrate that works, from an    *)
(* empty localStorage.                                                     *)
(***************************************************************************)
Init ==
    /\ localStorage = EmptyStorage
    /\ now = 0
    /\ pre = localStorage
    /\ call = NoCall
    /\ ret = FALSE
    /\ page = NoPage

Next ==
    \/ Return
    \/ LoadTransactions(Reliable)
    \/ SaveTransactions(Reliable)
    \/ AddTransaction(AddInputs, Reliable)
    \/ UpdateTransaction(UpdateInputs, Reliable)
    \/ DeleteTransaction(Reliable)
    \/ GetTransaction(Reliable)
    \/ ClearTransactions(Reliable)
    \/ ExportData(Reliable)
    \/ ImportData(PlainDocs, Reliable)

Spec == Init /\ [][Next]_vars

(***************************************************************************)
(* CrudSpec: the transactions of the Store made, changed and removed one   *)
(* by one on a substrate that works, from an empty localStorage.           *)
(***************************************************************************)
CrudNext ==
    \/ Return
    \/ LoadTransactions(Reliable)
    \/ AddTransaction(AddInputs, Reliable)
    \/ UpdateTransaction(UpdateInputs, Reliable)
    \/ DeleteTransaction(Reliable)
    \/ GetTransaction(Reliable)
    \/ ClearTransactions(Reliable)

CrudSpec == Init /\ [][CrudNext]_vars

(***************************************************************************)
(* FrameSpec: every operation of the Store, on a localStorage that holds   *)
(* transactions and settings and on a substrate that may throw.  The       *)
(* clock stands at its last instant: which item a call writes does not     *)
(* depend on the stamps.                                                   *)
(***************************************************************************)
FrameInit ==
    /\ localStorage \in
          [transactions : {TxnText("absent", <<>>), TxnText("corrupt", <<>>),
                           TxnText("array", <<TxnX>>)},
           settings : {SettingsText("absent", NoFields),
                       SettingsText("corrupt", NoFields),
                       SettingsText("object", ImportSettings)},
           version : {NoItem, CURRENT_VERSION}]
    /\ now = MaxTime
    /\ pre = localStorage
    /\ call = NoCall
    /\ ret = FALSE
    /\ page = NoPage

FrameNext ==
    \/ Return
    \/ ClearTransactions(Faults)
    \/ SaveTransactions(Faults)
    \/ AddTransaction({FormGood}, Faults)
    \/ UpdateTransaction({[amount |-> AmountSeven]}, Faults)
    \/ DeleteTransaction(Faults)
    \/ SaveSettings({Obj(FormSettings)}, Faults)
    \/ UpdateSetting({<<"theme", "dark">>, <<"eurRate", "NaN">>}, Faults)
    \/ LoadTransactions(Faults)
    \/ GetTransaction(Faults)
    \/ LoadSettings(Faults)
    \/ ExportData(Faults)
    \/ ImportData({NullDoc, Doc(<<TxnIdOnly>>), Doc(<<TxnY>>),
                   DocWithSettings(<<TxnX>>, Obj(ImportSettings))}, Faults)

FrameSpec == FrameInit /\ [][FrameNext]_vars

(***************************************************************************)
(* QuerySpec: the queries on a Store of up to two records.                 *)
(***************************************************************************)
CalculateTotal(faults) ==
    \E fault \in faults :
        Reads([op |-> "calculateTotal", fault |-> fault],
              calculateTotal(loadTransactions(localStorage, fault)))

GetSpendingForLastDays(faults) ==
    \E fault \in faults, days \in QueryDays, clock \in Clocks :
        Reads([op |-> "getSpendingForLastDays", days |-> days, clock |-> clock,
               fault |-> fault],
              getSpendingForLastDays(localStorage, days, clock, fault))

\* The bounds are Date objects: midnights (UTC) of three days.
GetTransactionsByDateRange(faults) ==
    \E fault \in faults :
    \E startDate, endDate \in {<<2024, 3, 8>>, <<2024, 3, 14>>, Today} :
        LET within(t) ==
                /\ ParseDate(t.date) # InvalidDate
                /\ ~DayBefore(ParseDate(t.date), startDate)
                /\ ~DayBefore(endDate, ParseDate(t.date))
        IN  Reads([op |-> "getTransactionsByDateRange", startDate |-> startDate,
                   endDate |-> endDate, fault |-> fault],
                  SelectSeq(loadTransactions(localStorage, fault), within))

GetTransactionsByCategory(faults) ==
    \E fault \in faults, category \in {CategoryFood, DescTea} :
        Reads([op |-> "getTransactionsByCategory", category |-> category,
               fault |-> fault],
              SelectSeq(loadTransactions(localStorage, fault),
                        LAMBDA t : Get(t, "category") = category))

\* The totals (in hundredths) of the categories that occur.
GetSpendingByCategory(faults) ==
    \E fault \in faults :
        LET transactions == loadTransactions(localStorage, fault)
            of(category) ==
                SelectSeq(transactions, LAMBDA t : t.category = category)
        IN  Reads([op |-> "getSpendingByCategory", fault |-> fault],
                  [category \in {transactions[i].category :
                                    i \in DOMAIN transactions} |->
                      calculateTotal(of(category))])

FilterTransactionsByRegex(faults) ==
    \E fault \in faults,
       regex \in {JsNull} \cup [pattern : {DescTea, <<"5">>, <<"F", "O">>},
                                 flags : {"", "i"}] :
        Writes([op |-> "filterTransactionsByRegex", regex |-> regex,
                fault |-> fault],
               filterTransactionsByRegex(localStorage, regex, fault))

SortTransactions(faults) ==
    \E fault \in faults, field \in {"date", "description", "amount", "id"},
       order \in {"asc", "desc"} :
    \E result \in sortTransactions(localStorage, field, order, fault) :
        Writes([op |-> "sortTransactions", field |-> field, order |-> order,
                fault |-> fault],
               result)

QueryInit ==
    /\ \E items \in {<<>>} \cup {<<r>> : r \in QueryRecords}
                    \cup {<<r, q>> : r \in QueryRecords, q \in QueryRecords} :
          localStorage = [transactions |-> TxnText("array", items),
                          settings |-> SettingsText("absent", NoFields),
                          version |-> CURRENT_VERSION]
    /\ now = 0
    /\ pre = localStorage
    /\ call = NoCall
    /\ ret = FALSE
    /\ page = NoPage

QueryNext ==
    \/ Return
    \/ CalculateTotal(Reliable)
    \/ GetSpendingForLastDays(Reliable)
    \/ GetTransactionsByDateRange(Reliable)
    \/ GetTransactionsByCategory(Reliable)
    \/ GetSpendingByCategory(Reliable)
    \/ GetTransaction(Reliable)
    \/ ExportData(Reliable)
    \/ FilterTransactionsByRegex(Reliable)
    \/ SortTransactions(Reliable)

QuerySpec == QueryInit /\ [][QueryNext]_vars

(***************************************************************************)
(* IOSpec: import, export, load and save on a substrate that may hold      *)
(* anything and may throw.                                                 *)
(***************************************************************************)
IOInit ==
    /\ localStorage \in
          [transactions : {TxnText("absent", <<>>), TxnText("corrupt", <<>>),
                           TxnText("nonarray", <<TxnX>>)},
           settings : {SettingsText("absent", NoFields),
                       SettingsText("corrupt", NoFields),
                       SettingsText("nonobject", NoFields)},
           version : {NoItem}]
    /\ now = 0
    /\ pre = localStorage
    /\ call = NoCall
    /\ ret = FALSE
    /\ page = NoPage

IONext ==
    \/ Return
    \/ LoadTransactions(Faults)
    \/ SaveTransactions(Faults)
    \/ DeleteTransaction(Faults)
    \/ ClearTransactions(Faults)
    \/ LoadSettings(Faults)
    \/ SaveSettings({Obj(FormSettings)}, Faults)
    \/ ExportData(Faults)
    \/ ImportData(ImportDocs, Faults)

IOSpec == IOInit /\ [][IONext]_vars

\* Every stored array holds objects only.
(***************************************************************************)
(* ValidatorSpec: calls of the validators on texts, numbers, null and      *)
(* undefined.                                                              *)
(***************************************************************************)
DateText(y, m, d) ==
    PadStart(y, 4) \o <<"-">> \o PadStart(m, 2) \o <<"-">> \o PadStart(d, 2)

\* Every text of up to three of the characters 0 1 5 . space -, the texts around the upper bound,
\* numbers, null and undefined.
ValidateAmount ==
    LET inputs ==
            UNION {[1..n -> {"0", "1", "5", ".", " ", "-"}] : n \in 0..3}
              \cup {<<"1", "0", "0", ".", "1", "2", "3">>, <<"1", "2", ".", "5", "0">>,
                    <<"9", "9", "9", "9", "9", "9", "9", ".", "9", "9">>,
                    <<"1", "0", "0", "0", "0", "0", "0", "0">>,
                    <<"1", "0", "0", "0", "0", "0", "0", "0", ".", "0">>,
                    <<" ", "1", "2", ".", "5", " ">>, <<"1", "e", "3">>,
                    Null, Undefined}
              \cup {Num(t) : t \in {<<"5">>, <<"0">>, <<"0", ".", "5">>, <<"-", "5">>,
                                    <<"1", "2", ".", "5">>, <<"1", "e", "+", "2", "1">>,
                                    <<"1", "0", "0", ".", "1", "2", "3">>,
                                    <<"1", "0", "0", "0", "0", "0", "0", "0">>}}
    IN  \E amount \in inputs :
            Reads([op |-> "validateAmount", amount |-> amount],
                  validateAmount(amount))

\* Texts of the shape dddd-dd-dd around the two ends of the accepted range
\* and the ends of the months, other texts, and values that are no text.
\* The call is made on one of three local calendar days.
ValidateDate ==
    LET inputs ==
            {DateText(y, m, d) : y \in {50, 2013, 2014, 2015, 2023, 2024, 2025},
                                 m \in {0, 1, 2, 3, 4, 12, 13},
                                 d \in {0, 1, 14, 15, 16, 28, 29, 30, 31, 32}}
              \cup {<<>>, <<" ">> \o DateToday, <<"1", "5", "/", "0", "3">>,
                    <<"2", "0", "2", "4", "-", "3", "-", "1", "5">>,
                    Null, Undefined, Num(<<"2", "0", "2", "4">>)}
    IN  \E date \in inputs,
           today \in {Today, <<2024, 2, 29>>, <<2024, 12, 31>>} :
            Reads([op |-> "validateDate", date |-> date, today |-> today],
                  validateDate(date, today))

\* Records with any of the four fields missing or rejected, the empty
\* object, a primitive (every property of it is undefined), null and
\* undefined.
ValidateTransaction ==
    LET inputs ==
            {[k \in keys |-> FormGood[k]] :
                keys \in SUBSET {"description", "amount", "category", "date"}}
              \cup {[description |-> ds, amount |-> a, category |-> c, date |-> dt] :
                      ds \in {DescTea, <<"t", "e">>}, a \in {AmountFive, AmountNegative},
                      c \in {CategoryFood, <<"F", "1">>},
                      dt \in {DateToday, DateText(2024, 2, 30)}}
              \cup {FormGood, FormWithId, [primitive |-> TRUE], JsNull, JsUndefined}
    IN  \E transaction \in inputs :
            Reads([op |-> "validateTransaction", transaction |-> transaction,
                   today |-> Today],
                  validateTransaction(transaction, Today))

ValidatorNext ==
    \/ Return
    \/ ValidateAmount
    \/ ValidateDate
    \/ ValidateTransaction

ValidatorSpec == Init /\ [][ValidatorNext]_vars

(***************************************************************************)
(* FormSpec: app.js, the transaction form.  Submits of the form, for a new *)
(* record or for the record named in the page's address, and removals.     *)
(***************************************************************************)
\* The date rule left out.
validateForm_WithoutDate(data, today) ==
    FieldError("description", validateDescription(data.description))
      \o FieldError("amount", validateAmount(data.amount))
      \o FieldError("category", validateCategory(data.category))

\* TransactionFormPage.validateForm: the errors of the four fields.
validateForm(data, today) ==
    FieldError("description", validateDescription(data.description))
      \o FieldError("amount", validateAmount(data.amount))
      \o FieldError("category", validateCategory(data.category))
      \o FieldError("date", validateDate(data.date, today))

\* TransactionFormPage.handleSubmit; the values of the controls are texts,
\* whatever the user typed; editingId is the id of the page's address, ""
\* when it has none.
HandleSubmit(faults) ==
    \E fault \in faults, random \in RandomValues,
       editingId \in StoredIds(localStorage) \cup {"", "none"},
       control \in
          [description : {DescTea, <<" ">> \o DescTea, <<"t", "e">>},
           amount : {AmountFive, AmountFive \o <<" ">>, AmountNegative},
           category : {CategoryFood, <<" ">> \o CategoryFood, <<"F", "1">>},
           date : {DateToday, DateText(2024, 2, 30)},
           paymentMethod : {<<"c", "a", "s", "h">>}] :
    \E timestamp \in now..MaxTime :
    \E createdAt \in timestamp..MaxTime :
    \E updatedAt \in createdAt..MaxTime :
        LET formData == [description |-> Trim(control.description),
                         amount |-> Trim(control.amount),
                         category |-> control.category,
                         date |-> Trim(control.date),
                         paymentMethod |-> control.paymentMethod]
            errors == validateForm(formData, Today)
            result == IF editingId # ""
                      THEN updateTransaction(localStorage, editingId, formData,
                                             updatedAt, fault)
                      ELSE addTransaction(localStorage, formData, timestamp,
                                          random, createdAt, updatedAt, fault)
            c == [op |-> "handleSubmit", control |-> control,
                  editingId |-> editingId, today |-> Today, fault |-> fault]
        IN  /\ Idle
            /\ pre' = localStorage
            /\ IF Len(errors) > 0
               THEN /\ timestamp = now /\ updatedAt = now /\ random = 0
                    /\ call' = c @@ [calls |-> "none"]
                    /\ ret' = errors
                    /\ UNCHANGED <<localStorage, now, page>>
               ELSE /\ editingId = "" => Len(Items(localStorage)) < MaxTxns
                    /\ editingId # "" => timestamp = now /\ createdAt = now
                                                          /\ random = 0
                    /\ call' = c @@ [calls |-> IF editingId # ""
                                                THEN "updateTransaction"
                                                ELSE "addTransaction"]
                    /\ ret' = result.ret
                    /\ localStorage' = result.ls
                    /\ now' = updatedAt
                    /\ UNCHANGED page

\* An empty localStorage; the stamps play no part in what the form lets
\* through, and the clock stands at its last instant.
FormInit ==
    /\ localStorage = EmptyStorage
    /\ now = MaxTime
    /\ pre = localStorage
    /\ call = NoCall
    /\ ret = FALSE
    /\ page = NoPage

FormNext ==
    \/ Return
    \/ HandleSubmit(Reliable)
    \/ DeleteTransaction(Reliable)

FormSpec == FormInit /\ [][FormNext]_vars

(***************************************************************************)
(* SearchSpec: app.js, the search box of the transactions page.  Input     *)
(* events arrive at any time; time passes in steps of 100 ms while a timer *)
(* waits, and a timer that is due runs before time passes on.  The timers  *)
(* run when due and time passes: both steps are weakly fair.               *)
(***************************************************************************)
\* The delay of setTimeout in the input listener, in ms.
Debounce == 300

\* The listener without its clearTimeout.
Input_WithoutClearTimeout ==
    /\ Len(page.inputAt) < MaxInputs
    /\ \E typed \in BOOLEAN, text \in {<<"t">>, <<"T", "e">>, <<" ">>, <<"(">>} :
          LET id == Len(page.inputAt) + 1
          IN  page' = [page EXCEPT
                  !.value = IF typed THEN text ELSE @,
                  !.checked = IF typed THEN @ ELSE ~@,
                  !.timers = @ \cup {[id |-> id, due |-> page.clock + Debounce]},
                  !.searchTimeout = id,
                  !.inputAt = Append(@, page.clock)]
    /\ UNCHANGED <<localStorage, now, pre, call, ret>>

\* An input event of the search box: the user has changed its text, or
\* has changed the case-sensitive box, whose change listener dispatches
\* one.  The listener clears the timer it keeps and sets a new one.
Input ==
    /\ Len(page.inputAt) < MaxInputs
    /\ \E typed \in BOOLEAN, text \in {<<"t">>, <<"T", "e">>, <<" ">>, <<"(">>} :
          LET id == Len(page.inputAt) + 1
              cleared == {t \in page.timers : t.id # page.searchTimeout}
          IN  page' = [page EXCEPT
                  !.value = IF typed THEN text ELSE @,
                  !.checked = IF typed THEN @ ELSE ~@,
                  !.timers = cleared \cup {[id |-> id, due |-> page.clock + Debounce]},
                  !.searchTimeout = id,
                  !.inputAt = Append(@, page.clock)]
    /\ UNCHANGED <<localStorage, now, pre, call, ret>>

\* What the timer's callback does with the controls as they are now: it
\* calls renderTransactions() for an empty pattern, writes a message for a
\* pattern that new RegExp rejects (here one with "("), and calls
\* filterTransactionsByRegex with the compiled pattern otherwise.  Which
\* records those two render is theirs to say; none of this writes.
Evaluation(t) ==
    LET pattern == Trim(page.value)
        flags == IF page.checked THEN "" ELSE "i"
    IN  [timer |-> t.id, at |-> page.clock, inputs |-> Len(page.inputAt),
         value |-> page.value, checked |-> page.checked,
         pattern |-> pattern,
         flags |-> IF pattern = <<>> THEN "" ELSE flags,
         calls |-> IF pattern = <<>> THEN "renderTransactions"
                   ELSE IF \E i \in 1..Len(pattern) : pattern[i] = "("
                   THEN "Invalid regex"
                   ELSE "filterTransactionsByRegex"]

\* A timer that runs again and again.
Fire_Repeating ==
    /\ \E t \in page.timers :
          /\ t.due <= page.clock
          /\ Len(page.evaluated) <= MaxInputs
          /\ page' = [page EXCEPT !.evaluated = Append(@, Evaluation(t))]
    /\ UNCHANGED <<localStorage, now, pre, call, ret>>

\* A timer is due: its callback runs, once.
Fire ==
    /\ \E t \in page.timers :
          /\ t.due <= page.clock
          /\ page' = [page EXCEPT !.timers = @ \ {t},
                                  !.evaluated = Append(@, Evaluation(t))]
    /\ UNCHANGED <<localStorage, now, pre, call, ret>>

\* 100 ms pass while a timer waits and none is due.
Tick ==
    /\ page.timers # {}
    /\ \A t \in page.timers : t.due > page.clock
    /\ page' = [page EXCEPT !.clock = @ + 100]
    /\ UNCHANGED <<localStorage, now, pre, call, ret>>

SearchNext ==
    \/ Input
    \/ Fire
    \/ Tick

SearchSpec == Init /\ [][SearchNext]_vars /\ WF_vars(Fire) /\ WF_vars(Tick)

(***************************************************************************)
(* ImportSpec: the import of files on the settings page.  A file is        *)
(* [kind, data]: "json" (text that JSON.parse turns into the document      *)
(* data), "text" (JSON.parse throws) or "unreadable" (the reader reports   *)
(* an error).  Several reads may go on at once; they end in any order.     *)
(***************************************************************************)
\* The import that keeps the stored records behind the document's.
uploadDataFromFile_Merging(ls, file, fault) ==
    IF file.kind = "json" /\ file.data.kind = "object"
    THEN importData(ls, Doc(file.data.fields.transactions.items \o Items(ls)),
                    fault)
    ELSE [ls |-> ls, ret |-> [rejected |-> "Invalid JSON file"]]

\* What the reader's onload and onerror handlers of uploadDataFromFile do:
\* the promise is resolved with the result of importData or rejected.
uploadDataFromFile(ls, file, fault) ==
    CASE file.kind = "json" -> importData(ls, file.data, fault)
      [] file.kind = "text" -> [ls |-> ls, ret |-> [rejected |-> "Invalid JSON file"]]
      [] file.kind = "unreadable" ->
            [ls |-> ls, ret |-> [rejected |-> "Failed to read file"]]

\* App.importData(file): uploadDataFromFile starts to read the file.
Upload ==
    /\ ~page.reloading
    /\ Cardinality(page.reads) + Len(page.done) < MaxUploads
    /\ \E file \in {[kind |-> "json", data |-> d] :
                        d \in {Doc(<<TxnX>>), Doc(<<TxnY, TxnX>>),
                               Doc(<<TxnIdOnly>>)}}
                     \cup {[kind |-> "text", data |-> NullDoc],
                           [kind |-> "unreadable", data |-> NullDoc]} :
          page' = [page EXCEPT
              !.reads = @ \cup {[id |-> Cardinality(@) + Len(page.done) + 1,
                                 file |-> file]},
              !.base = IF page.reads = {} /\ page.done = <<>>
                       THEN localStorage ELSE @]
    /\ UNCHANGED <<localStorage, now, pre, call, ret>>

\* A read ends: the handler runs to its end, and App.importData, which
\* awaits the promise, calls location.reload() after a successful import.
OnLoad ==
    \E read \in page.reads :
        LET result == uploadDataFromFile(localStorage, read.file, NoFault)
            success == "success" \in DOMAIN result.ret /\ result.ret.success
        IN  /\ localStorage' = result.ls
            /\ page' = [page EXCEPT
                    !.reads = @ \ {read},
                    !.done = Append(@, [id |-> read.id, file |-> read.file,
                                        success |-> success]),
                    !.reloading = @ \/ success]
            /\ UNCHANGED <<now, pre, call, ret>>

\* The page is loaded again; reads that still go on are abandoned.
Reload ==
    /\ page.reloading
    /\ page' = NoPage
    /\ UNCHANGED <<localStorage, now, pre, call, ret>>

ImportNext ==
    \/ Upload
    \/ OnLoad
    \/ Reload

ImportSpec == Init /\ [][ImportNext]_vars

StoredItemsAreObjects ==
    \A i \in DOMAIN localStorage.transactions.items :
        IsObject(localStorage.transactions.items[i])

(***************************************************************************)
(* The properties.  In a state where call # NoCall the call has just       *)
(* returned ret, pre is the localStorage it began with and localStorage    *)
(* the one it left.                                                        *)
(***************************************************************************)

\* C1 (as claimed): every record of the persisted collection passes the
\* validators of description, amount, category and date.  All instants of
\* the model are within the day Today, so the day of the last write is
\* Today.
C1_StoredRecordsAreValid ==
    \A i \in DOMAIN Items(localStorage) :
        validateTransaction(Items(localStorage)[i], Today).valid

\* C2 (as claimed): no two records of the persisted collection have the
\* same id.
C2_IdsAreUnique ==
    \A i, j \in DOMAIN Items(localStorage) :
        i # j => Items(localStorage)[i].id # Items(localStorage)[j].id

\* C3 (as claimed): when importData returns success = false the persisted
\* transactions and settings are what they were before the call.
C3_FailedImportWritesNothing ==
    (call.op = "importData" /\ ~ret.success) =>
        /\ localStorage.transactions = pre.transactions
        /\ localStorage.settings = pre.settings

C5_ImportReplaces ==
    (call.op = "importData" /\ ret.success) =>
        loadTransactions(localStorage, NoFault) = call.data.fields.transactions.items

C5_Witness ==
    /\ call.op = "importData"
    /\ ret.success
    /\ Len(call.data.fields.transactions.items) = 2
    /\ \E i \in DOMAIN Items(pre) :
          \A j \in DOMAIN call.data.fields.transactions.items :
              Items(pre)[i] # call.data.fields.transactions.items[j]

\* C6 (as claimed): when importData(doc) returns success and doc.settings is
\* an object, loadSettings returns doc.settings over the defaults: no value
\* of before the call is left.
C6_ImportReplacesSettings ==
    (/\ call.op = "importData"
     /\ ret.success
     /\ "settings" \in DOMAIN call.data.fields
     /\ call.data.fields.settings.kind = "object") =>
        loadSettings(localStorage, NoFault)
            = call.data.fields.settings.fields @@ defaults

\* C7: importData(doc) returns success = false when doc is no object, when
\* doc.transactions is absent or no array, and when an element of it lacks
\* one of id, description, amount, category, date; when the first such
\* element is an object the message names the first field it lacks, in
\* that order.
C7_FieldOrder == <<"id", "description", "amount", "category", "date">>

C7_Lacks(element) ==
    \E f \in DOMAIN C7_FieldOrder : C7_FieldOrder[f] \notin DOMAIN element

C7_ImportFailures ==
    call.op = "importData" =>
        IF \/ call.data.kind # "object"
           \/ "transactions" \notin DOMAIN call.data.fields
           \/ call.data.fields.transactions.kind # "array"
        THEN ~ret.success
        ELSE LET items == call.data.fields.transactions.items
             IN  \A i \in DOMAIN items :
                    (C7_Lacks(items[i]) /\ \A j \in 1..(i - 1) : ~C7_Lacks(items[j])) =>
                        /\ ~ret.success
                        /\ IsObject(items[i]) =>
                              \E f \in DOMAIN C7_FieldOrder :
                                  /\ C7_FieldOrder[f] \notin DOMAIN items[i]
                                  /\ \A g \in 1..(f - 1) :
                                        C7_FieldOrder[g] \in DOMAIN items[i]
                                  /\ ret.message
                                       = "Transaction missing required field: "
                                           \o C7_FieldOrder[f]

C7_Witness ==
    /\ call.op = "importData"
    /\ call.data = Doc(<<TxnNoCategory, TxnIdOnly>>)
    /\ ret = ImportResult(FALSE, "Transaction missing required field: category")

\* C8 (as claimed): saveTransactions returns false for a value that is no
\* array and when serialization or the write fails, and a call that returns
\* false leaves the transactions item and the version item as they were.
C8_FailedSaveWritesNothing ==
    call.op = "saveTransactions" =>
        /\ (call.transactions.kind # "array" \/ call.fault.unavailable) => ret = FALSE
        /\ ret = FALSE =>
              /\ localStorage.transactions = pre.transactions
              /\ localStorage.version = pre.version

\* C9: loadTransactions returns the empty sequence when the transactions
\* item is absent, is no JSON or is JSON that is no array, and the stored
\* array otherwise (the item being readable).
C9_LoadTransactions ==
    (call.op = "loadTransactions" /\ ~call.fault.unavailable) =>
        IF pre.transactions.kind \in {"absent", "corrupt", "nonarray"}
        THEN ret = <<>>
        ELSE ret = pre.transactions.items /\ localStorage = pre

C9_Witness ==
    /\ call.op = "loadTransactions"
    /\ ~call.fault.unavailable
    /\ pre.transactions.kind = "nonarray"
    /\ pre.transactions.items # <<>>
    /\ ret = <<>>

\* C10 (as claimed): the record addTransaction returns has the id the Store
\* generated, and the record updateTransaction(id, patch) returns has the
\* id it was looked up by.
C10_IdIsTheStores ==
    /\ (call.op = "addTransaction" /\ IsObject(ret)) => ret.id = call.id
    /\ (call.op = "updateTransaction" /\ IsObject(ret)) => ret.id = call.id

\* The record that the call's id finds in the collection of before the call.
Old == Items(pre)[findIndex(Items(pre), call.id)]

\* C11 (as claimed): the stamps of the record addTransaction returns are
\* the clock's readings, whatever stamps the fields carry; the record
\* updateTransaction returns has the clock's reading as updatedAt and the
\* createdAt the record had before the call, whatever the patch carries.
C11_StampsAreTheStores ==
    /\ (call.op = "addTransaction" /\ IsObject(ret)) =>
          ret.createdAt = call.createdAt /\ ret.updatedAt = call.updatedAt
    /\ (call.op = "updateTransaction" /\ IsObject(ret)) =>
          /\ ret.updatedAt = call.updatedAt
          /\ "createdAt" \in DOMAIN Old => ret.createdAt = Old.createdAt

\* C12 (as claimed): every record of the persisted collection that has both
\* stamps has updatedAt at or after createdAt.
C12_UpdatedNotBeforeCreated ==
    \A i \in DOMAIN Items(localStorage) :
        {"createdAt", "updatedAt"} \subseteq DOMAIN Items(localStorage)[i] =>
            Items(localStorage)[i].updatedAt >= Items(localStorage)[i].createdAt

\* C13 (as claimed): the record addTransaction returns has createdAt equal
\* to updatedAt.
C13_AddStampsAreEqual ==
    (call.op = "addTransaction" /\ IsObject(ret)) => ret.createdAt = ret.updatedAt

\* C14: on a substrate that works updateTransaction(id, patch) returns null
\* and writes nothing when no record has the id; otherwise it returns the
\* record that now stands where the first record with the id stood, which
\* has the patch's fields over the old ones and the clock's reading as
\* updatedAt, and every other position is as it was.
C14_Merged(new, old, patch, stamp) ==
    /\ DOMAIN new = DOMAIN old \cup DOMAIN patch \cup {"updatedAt"}
    /\ \A k \in DOMAIN new :
          new[k] = IF k = "updatedAt" THEN stamp
                   ELSE IF k \in DOMAIN patch THEN patch[k] ELSE old[k]

C14_UpdateTransaction ==
    call.op = "updateTransaction" =>
        LET before == Items(pre)
            after == Items(localStorage)
        IN  IF \A i \in DOMAIN before : before[i].id # call.id
            THEN ret = JsNull /\ localStorage = pre
            ELSE /\ IsObject(ret)
                 /\ Len(after) = Len(before)
                 /\ \E i \in DOMAIN before :
                       /\ before[i].id = call.id
                       /\ after[i] = ret
                       /\ C14_Merged(ret, before[i], call.updates, call.updatedAt)
                       /\ \A j \in DOMAIN before \ {i} : after[j] = before[j]

C14_Witness ==
    /\ call.op = "updateTransaction"
    /\ IsObject(ret)
    /\ Len(Items(pre)) = 2
    /\ Items(pre)[2].id = call.id
    /\ Items(pre)[1].id # call.id
    /\ call.updates = [amount |-> AmountSeven]
    /\ Items(pre)[2].amount = AmountFive
    /\ Items(pre)[2].updatedAt < call.updatedAt

\* C15: on a substrate that works deleteTransaction(id) returns false and
\* writes nothing when no record has the id; otherwise it returns true and
\* the collection is the old one without the records of that id.  After
\* one addTransaction on the empty Store, deleting by the returned id
\* returns true and leaves the collection empty.
C15_Other(t) == t.id # call.id

C15_DeleteTransaction ==
    call.op = "deleteTransaction" =>
        LET before == Items(pre)
            after == Items(localStorage)
        IN  IF \A i \in DOMAIN before : before[i].id # call.id
            THEN ret = FALSE /\ localStorage = pre
            ELSE /\ ret = TRUE
                 /\ \A i \in DOMAIN after : after[i].id # call.id
                 /\ after = SelectSeq(before, C15_Other)

C15_Witness ==
    /\ call.op = "deleteTransaction"
    /\ Len(Items(pre)) = 1
    /\ Items(pre)[1].id = call.id
    /\ ret = TRUE
    /\ localStorage.transactions = TxnText("array", <<>>)

C17_TransactionOps ==
    {"clearTransactions", "saveTransactions", "addTransaction",
     "updateTransaction", "deleteTransaction"}

C17_SettingsOps == {"saveSettings", "updateSetting"}

C17_SeparateData ==
    /\ call.op \in C17_TransactionOps => localStorage.settings = pre.settings
    /\ call.op \in C17_SettingsOps =>
          localStorage.transactions = pre.transactions

C17_Witness ==
    /\ call.op = "clearTransactions"
    /\ ret = TRUE
    /\ pre.transactions.kind = "array"
    /\ pre.transactions.items # <<>>
    /\ pre.settings.kind = "object"
    /\ localStorage.transactions.kind = "absent"

\* C18: loadSettings returns a record with baseCurrency, usdRate, eurRate,
\* monthlyBudget and theme whatever the settings item is; when the item is
\* a record that can be read, each of the five has the item's value if the
\* item has the field and the default otherwise; when there is no item or
\* it is no JSON, each has the default.
C18_Defaults ==
    [baseCurrency |-> "RWF", usdRate |-> "1200", eurRate |-> "1300",
     monthlyBudget |-> "100000", theme |-> "light"]

C18_LoadSettings ==
    call.op = "loadSettings" =>
        /\ DOMAIN C18_Defaults \subseteq DOMAIN ret
        /\ (pre.settings.kind = "object" /\ ~call.fault.unavailable) =>
              /\ DOMAIN pre.settings.fields \subseteq DOMAIN ret
              /\ \A k \in DOMAIN ret :
                    ret[k] = IF k \in DOMAIN pre.settings.fields
                             THEN pre.settings.fields[k]
                             ELSE C18_Defaults[k]
        /\ pre.settings.kind \in {"absent", "corrupt"} => ret = C18_Defaults

C18_Witness ==
    /\ call.op = "loadSettings"
    /\ ~call.fault.unavailable
    /\ pre.settings.kind = "object"
    /\ DOMAIN pre.settings.fields = {"theme", "usdRate"}
    /\ ret.theme = "dark"
    /\ ret.baseCurrency = "RWF"

\* C19 (as claimed): getSpendingForLastDays(n) returns a mapping of n keys,
\* which are the local calendar day of the call and the n - 1 days before
\* it, as YYYY-MM-DD.
C19_Text(d) ==
    PadStart(d[1], 4) \o <<"-">> \o PadStart(d[2], 2) \o <<"-">> \o PadStart(d[3], 2)

C19_LastDays ==
    call.op = "getSpendingForLastDays" =>
        /\ Cardinality(DOMAIN ret) = call.days
        /\ DOMAIN ret =
              {C19_Text(setDate(call.clock.today, call.clock.today[3] - i)) :
                  i \in 0..(call.days - 1)}

\* C20 (as claimed): the values of getSpendingForLastDays(7) add up to the
\* total of the amounts of the stored records whose date is one of its
\* keys.
RECURSIVE C20_Sum(_, _)
C20_Sum(f, keys) ==
    IF keys = {} THEN 0
    ELSE LET k == CHOOSE x \in keys : TRUE
         IN  f[k] + C20_Sum(f, keys \ {k})

C20_SumIsTotalOfKeyedDays ==
    (call.op = "getSpendingForLastDays" /\ call.days = 7) =>
        C20_Sum(ret, DOMAIN ret)
            = calculateTotal(
                  SelectSeq(Items(pre), LAMBDA t : t.date \in DOMAIN ret))

\* C26 (as claimed): validateAmount accepts exactly the texts that match the
\* amount grammar ("0" or an integer part without leading zero, then
\* optionally a point and one or two digits) with a value v,
\* 0 < v <= 9999999.99; every other input is rejected.
C26_Int(s) ==
    /\ s # <<>>
    /\ \A i \in 1..Len(s) : s[i] \in Digits
    /\ s[1] = "0" => Len(s) = 1

C26_Grammar(s) ==
    \/ C26_Int(s)
    \/ \E p \in 2..Len(s) :
          /\ s[p] = "."
          /\ C26_Int(SubSeq(s, 1, p - 1))
          /\ Len(s) - p \in {1, 2}
          /\ \A i \in (p + 1)..Len(s) : s[i] \in Digits

\* The value of a text of the grammar, in hundredths.
C26_Hundredths(s) ==
    LET p == IF \E i \in 1..Len(s) : s[i] = "."
             THEN CHOOSE i \in 1..Len(s) : s[i] = "."
             ELSE Len(s) + 1
        frac == SubSeq(s, p + 1, Len(s)) \o (IF Len(s) - p = 1 THEN <<"0">> ELSE <<>>)
    IN  100 * DigitsToNat(SubSeq(s, 1, p - 1)) + DigitsToNat(frac)

C26_InRange(s) == C26_Hundredths(s) > 0 /\ C26_Hundredths(s) <= 999999999

C26_AcceptsExactlyTheGrammar ==
    call.op = "validateAmount" =>
        (ret.valid <=> /\ IsString(call.amount)
                       /\ C26_Grammar(call.amount)
                       /\ C26_InRange(call.amount))

\* C26 (amended): validateAmount accepts an input exactly when it is a text
\* or a number whose string conversion, with the white space at its two
\* ends removed, matches the amount grammar with a value v,
\* 0 < v <= 9999999.99; so "01", "-5", "100.123" and "0" are rejected, and
\* " 5" and the number 5 are accepted.
C26_Text(v) == Trim(IF v # <<>> /\ v[1] = "number" THEN Tail(v) ELSE v)

C26_AcceptsTrimmedConversion ==
    call.op = "validateAmount" =>
        /\ ret.valid <=> /\ call.amount \notin {Null, Undefined}
                          /\ C26_Grammar(C26_Text(call.amount))
                          /\ C26_InRange(C26_Text(call.amount))
        /\ call.amount \in {<<"0", "1">>, <<"-", "5">>, <<"0">>,
                             <<"1", "0", "0", ".", "1", "2", "3">>} => ~ret.valid

\* The largest amount is accepted.
C26_Witness ==
    /\ call.op = "validateAmount"
    /\ call.amount = <<"9", "9", "9", "9", "9", "9", "9", ".", "9", "9">>
    /\ ret.valid

\* C27: validateDate accepts a text dddd-dd-dd exactly when it denotes a
\* real calendar day d with (today minus 10 calendar years) <= d <= today,
\* days being compared as (year, month, day).
C27_Shape(s) ==
    /\ Len(s) = 10
    /\ s[5] = "-" /\ s[8] = "-"
    /\ \A i \in (1..10) \ {5, 8} : s[i] \in Digits

C27_Day(s) ==
    <<DigitsToNat(SubSeq(s, 1, 4)), DigitsToNat(SubSeq(s, 6, 7)),
      DigitsToNat(SubSeq(s, 9, 10))>>

C27_Real(d) ==
    LET leap == d[1] % 400 = 0 \/ (d[1] % 4 = 0 /\ d[1] % 100 # 0)
        lengths == <<31, IF leap THEN 29 ELSE 28, 31, 30, 31, 30, 31, 31, 30,
                     31, 30, 31>>
    IN  d[2] \in 1..12 /\ d[3] \in 1..lengths[d[2]]

C27_NotAfter(a, b) ==
    10000 * a[1] + 100 * a[2] + a[3] <= 10000 * b[1] + 100 * b[2] + b[3]

C27_AcceptsTheLastTenYears ==
    (call.op = "validateDate" /\ IsString(call.date) /\ C27_Shape(call.date)) =>
        LET d == C27_Day(call.date)
            tenYearsBefore == <<call.today[1] - 10, call.today[2], call.today[3]>>
        IN  ret.valid <=> /\ C27_Real(d)
                          /\ C27_NotAfter(tenYearsBefore, d)
                          /\ C27_NotAfter(d, call.today)

\* The day exactly ten years before today is accepted.
C27_Witness ==
    /\ call.op = "validateDate"
    /\ call.today = Today
    /\ call.date = DateText(2014, 3, 15)
    /\ ret.valid

\* C24 (as claimed): validateTransaction returns, for every input, a result
\* whose errors hold one {field, message} entry per failing field in the
\* order description, amount, category, date, with valid true exactly when
\* there is none; it never throws.
C24_Fails(field) ==
    LET value == Get(call.transaction, field)
    IN  CASE field = "description" -> ~validateDescription(value).valid
          [] field = "amount" -> ~validateAmount(value).valid
          [] field = "category" -> ~validateCategory(value).valid
          [] field = "date" -> ~validateDate(value, call.today).valid

C24_ErrorsAreReturned ==
    call.op = "validateTransaction" =>
        /\ DOMAIN ret = {"valid", "errors"}
        /\ ret.valid <=> ret.errors = <<>>
        /\ \A i \in DOMAIN ret.errors :
              DOMAIN ret.errors[i] = {"field", "message"}
        /\ [i \in DOMAIN ret.errors |-> ret.errors[i].field]
             = SelectSeq(<<"description", "amount", "category", "date">>,
                         C24_Fails)

\* C25: handleSubmit calls addTransaction or updateTransaction only when
\* validateDescription, validateAmount, validateCategory and validateDate
\* all accept the values it submits (the description, amount and date of
\* the controls without the white space at their ends, the category as it
\* is); when one of them rejects, the persisted collection is unchanged.
C25_Submitted(field) ==
    IF field = "category" THEN call.control[field] ELSE Trim(call.control[field])

C25_AllAccept ==
    /\ validateDescription(C25_Submitted("description")).valid
    /\ validateAmount(C25_Submitted("amount")).valid
    /\ validateCategory(C25_Submitted("category")).valid
    /\ validateDate(C25_Submitted("date"), call.today).valid

C25_FormWritesThroughValidators ==
    call.op = "handleSubmit" =>
        /\ call.calls # "none" => C25_AllAccept
        /\ ~C25_AllAccept => localStorage = pre

\* A submit with a day that does not exist, on a Store that holds a record.
C25_Witness ==
    /\ call.op = "handleSubmit"
    /\ call.control.date = DateText(2024, 2, 30)
    /\ call.control.description = DescTea
    /\ Items(pre) # <<>>
    /\ localStorage = pre

\* C22: the read-side operations leave the persisted transactions, settings
\* and version as they were.
C22_ReadOps ==
    {"getTransactionsByDateRange", "getTransactionsByCategory", "calculateTotal",
     "getSpendingByCategory", "getSpendingForLastDays", "getTransaction",
     "exportData", "filterTransactionsByRegex", "sortTransactions"}

C22_ReadsChangeNothing ==
    call.op \in C22_ReadOps =>
        /\ localStorage.transactions = pre.transactions
        /\ localStorage.settings = pre.settings
        /\ localStorage.version = pre.version

\* A sort has rendered two stored records in the reverse of their stored
\* order.
C22_Witness ==
    /\ call.op = "sortTransactions"
    /\ Len(Items(pre)) = 2
    /\ Len(ret) = 2
    /\ ret[1] = Items(pre)[2]
    /\ ret[1] # ret[2]
    /\ localStorage = pre

\* C29 (as claimed): after sortTransactions(field, order), with field one of
\* date, description, amount, the records are rendered in the requested
\* order of the requested field: ascending, no record is followed by one
\* with a smaller key; descending, by none with a larger key.
C29_Key(t) ==
    CASE call.field = "date" -> DateKey(t)
      [] call.field = "amount" -> AmountCents(t.amount)
      [] call.field = "description" ->
            IF ToLower(t.description[1]) = "b" THEN 1 ELSE 2

C29_RenderedInRequestedOrder ==
    (call.op = "sortTransactions"
       /\ call.field \in {"date", "description", "amount"}) =>
        \A i \in 1..(Len(ret) - 1) :
            IF call.order = "asc"
            THEN C29_Key(ret[i]) <= C29_Key(ret[i + 1])
            ELSE C29_Key(ret[i]) >= C29_Key(ret[i + 1])

\* C23 (as claimed): when the substrate throws on a read or a write, or
\* holds unparsable data, the Store operation returns its failure value:
\* the empty collection (load), null (getById, add, update), false (save,
\* remove, clear, saveSettings, updateSetting), the default settings
\* (loadSettings), a document of the empty collection and the default
\* settings (export), success = false (import).  With a substrate on which
\* every access throws that is every call; a read fails also on unparsable
\* data; and a write of saveTransactions or importData that throws
\* QuotaExceededError leaves its item without the value of the call, so
\* that such a call may report success only if every item holds what the
\* call was to store there.
C23_ReturnsFailureValue ==
    LET f == call.fault
        noRead == f.unavailable \/ pre.transactions.kind = "corrupt"
        stored(value) == /\ localStorage.transactions.kind = "array"
                         /\ localStorage.transactions.items = value.items
                         /\ localStorage.version = CURRENT_VERSION
        settingsStored(value) ==
            /\ localStorage.settings.kind = "object"
            /\ \A k \in DOMAIN value.fields :
                  /\ k \in DOMAIN localStorage.settings.fields
                  /\ localStorage.settings.fields[k] = value.fields[k]
    IN  /\ (call.op = "loadTransactions" /\ noRead) => ret = <<>>
        /\ (call.op = "getTransaction" /\ noRead) => ret = JsNull
        /\ (call.op = "loadSettings"
              /\ (f.unavailable \/ pre.settings.kind = "corrupt"))
             => ret = C18_Defaults
        /\ (call.op = "exportData" /\ f.unavailable)
             => /\ ret.fields.transactions.items = <<>>
                /\ ret.fields.settings.fields = C18_Defaults
        /\ (call.op \in {"addTransaction", "updateTransaction"} /\ f.unavailable)
             => ret = JsNull
        /\ (call.op \in {"deleteTransaction", "clearTransactions",
                          "saveTransactions", "saveSettings", "updateSetting"}
              /\ f.unavailable)
             => ret = FALSE
        /\ (call.op = "saveTransactions" /\ ret) => stored(call.transactions)
        /\ (call.op = "importData" /\ f.unavailable) => ~ret.success
        /\ (call.op = "importData" /\ ret.success)
             => /\ stored(call.data.fields.transactions)
                /\ ("settings" \in DOMAIN call.data.fields
                      /\ call.data.fields.settings.kind = "object")
                     => settingsStored(call.data.fields.settings)

\* C21: each input event cancels the evaluation the previous one scheduled:
\* at most one evaluation is pending at any time, and an evaluation is made
\* only for the last input event so far and not before 300 ms have passed
\* since that event; an input followed by another within that delay (a
\* superseded one) is never evaluated.
C21_Debounce ==
    /\ Cardinality(page.timers) <= 1
    /\ \A i \in DOMAIN page.evaluated :
          LET e == page.evaluated[i]
          IN  /\ e.timer = e.inputs
              /\ e.at >= page.inputAt[e.timer] + 300
              /\ \A j \in DOMAIN page.inputAt :
                    j > e.timer => page.inputAt[j] >= e.at

\* An input was superseded by a second one 200 ms later, and the second one
\* has been evaluated.
C21_Witness ==
    /\ Len(page.inputAt) = 2
    /\ page.inputAt[2] = page.inputAt[1] + 200
    /\ Len(page.evaluated) = 1
    /\ page.evaluated[1].timer = 2

\* C30: the last input event is evaluated, exactly once and 300 ms after
\* it, with the text (without the white space at its ends) and the case
\* setting the controls hold when the timer fires; whenever an input event
\* awaits its evaluation, it or a later one is evaluated in the end.
C30_Awaited ==
    /\ page.inputAt # <<>>
    /\ \A i \in DOMAIN page.evaluated :
          page.evaluated[i].timer # Len(page.inputAt)

C30_SearchIsEvaluated ==
    /\ [](\A i \in DOMAIN page.evaluated :
            LET e == page.evaluated[i]
            IN  /\ e.at = page.inputAt[e.timer] + 300
                /\ e.pattern = Trim(e.value)
                /\ e.pattern # <<>> => e.flags = (IF e.checked THEN "" ELSE "i")
                /\ \A j \in DOMAIN page.evaluated :
                      page.evaluated[j].timer = e.timer => j = i)
    /\ (C30_Awaited ~> ~C30_Awaited)

\* The third input event, the last, has been evaluated 300 ms after it.
C30_Witness ==
    /\ Len(page.inputAt) = MaxInputs
    /\ page.evaluated # <<>>
    /\ page.evaluated[Len(page.evaluated)].timer = MaxInputs
    /\ page.clock = page.inputAt[MaxInputs] + 300

\* C28: when file imports overlap, the Store is at every moment what
\* importData leaves when applied to the documents one after the other in
\* the order in which their reads ended (files that are no JSON import
\* nothing), and its collection is that of the last document imported with
\* success alone: never a mixture of the records of two documents.
RECURSIVE C28_Applied(_, _)
C28_Applied(ls, done) ==
    IF done = <<>> THEN ls
    ELSE LET before == C28_Applied(ls, SubSeq(done, 1, Len(done) - 1))
             last == done[Len(done)]
         IN  IF last.file.kind = "json"
             THEN importData(before, last.file.data, NoFault).ls
             ELSE before

C28_LastWriteWins ==
    page.done # <<>> =>
        LET imported == SelectSeq(page.done, LAMBDA e : e.success)
        IN  /\ localStorage = C28_Applied(page.base, page.done)
            /\ IF imported = <<>>
               THEN localStorage.transactions = page.base.transactions
               ELSE localStorage.transactions.items
                      = imported[Len(imported)].file.data.fields.transactions.items

\* The file chosen second was read first, both were imported, and the Store
\* holds the two records of the file chosen first.
C28_Witness ==
    /\ Len(page.done) = 2
    /\ page.done[1].id = 2 /\ page.done[1].success
    /\ page.done[2].id = 1 /\ page.done[2].success
    /\ page.done[1].file.data = Doc(<<TxnX>>)
    /\ page.done[2].file.data = Doc(<<TxnY, TxnX>>)
    /\ Len(localStorage.transactions.items) = 2

====
